---- MODULE Spec2Model ----
(***************************************************************************)
(* Model of demo-mcp: the tool handlers of src/server.py (file readers,    *)
(* directory listing, Notion page creation) and the tool dispatcher of     *)
(* examples/test_demo.py (MockMCPClient.call_tool).                         *)
(*                                                                         *)
(* Python strings are sequences of one-character strings, so that          *)
(* Path.name, Path.suffix, str.lower, str.join and the parsers are          *)
(* computed, not assumed.  An Optional[T] argument is a set holding at     *)
(* most one T: {} is None.                                                  *)
(***************************************************************************)
EXTENDS Integers, Sequences, FiniteSets, TLC

VARIABLES notion_client, last, reply

vars == <<notion_client, last, reply>>

\* The field names of the model's records.  TLC keeps the fields of a record
\* in the order in which it first met their names; every record below is
\* written in this order, so that a record is built the way it is stored.
FieldOrder ==
    [path |-> 1, kind |-> 2, tool_name |-> 3, args |-> 4, handler_ran |-> 5,
     error |-> 6, jtype |-> 7, number |-> 8, items |-> 9, ok |-> 10,
     parsed |-> 11, nextpos |-> 12, results |-> 13, id |-> 14, page_id |-> 15,
     url |-> 16, title |-> 17, created_time |-> 18, last_edited_time |-> 19,
     filename |-> 20, content_type |-> 21, text |-> 22, value |-> 23,
     records |-> 24, size |-> 25, encoding |-> 26, file_size |-> 27,
     status |-> 28, exc |-> 29, msg |-> 30, message |-> 31, payload |-> 32,
     is_list |-> 33, fmt |-> 34, arg |-> 35, type |-> 36, chars |-> 37,
     lit |-> 38, required |-> 39, optional |-> 40, op |-> 41,
     database_id |-> 42, properties |-> 43, children |-> 44,
     plain_text |-> 45, opened |-> 46, reader |-> 47, fc |-> 48,
     directory |-> 49, files |-> 50, total_count |-> 51, keys |-> 52,
     page |-> 53, file_info |-> 54, body |-> 55, databases |-> 56,
     requests |-> 57, answers |-> 58, tool |-> 59, file_path |-> 60,
     delimiter |-> 61, max_rows |-> 62, file_extensions |-> 63,
     page_title |-> 64, read_text_file |-> 65, read_json_file |-> 66,
     read_csv_file |-> 67, list_files_in_directory |-> 68,
     create_notion_page |-> 69, create_notion_page_from_file |-> 70,
     get_notion_databases |-> 71, response |-> 72]

\* ------------------------------------------------------------------ bounds

\* Largest number of data rows of a modelled delimited file.
MaxRows == 12

\* Largest max_rows argument tried (None is tried as well).
MaxK == 3

\* server.py line 321: the number of records rendered into the page body.
SampleRows == 10

\* ------------------------------------------------------------ str helpers

Digits == <<"0", "1", "2", "3", "4", "5", "6", "7", "8", "9">>

UpperCase == <<"A", "B", "C", "D", "E", "F", "G", "H", "I", "J", "K", "L", "M",
               "N", "O", "P", "Q", "R", "S", "T", "U", "V", "W", "X", "Y", "Z">>

LowerCase == <<"a", "b", "c", "d", "e", "f", "g", "h", "i", "j", "k", "l", "m",
               "n", "o", "p", "q", "r", "s", "t", "u", "v", "w", "x", "y", "z">>

\* str(n) for an int n >= 0.
RECURSIVE Str(_)
Str(n) == IF n < 10 THEN <<Digits[n + 1]>>
          ELSE Str(n \div 10) \o <<Digits[(n % 10) + 1]>>

\* str.lower() on one character, then on a string.
LowerChar(c) ==
    IF \E i \in 1..26 : UpperCase[i] = c
    THEN LowerCase[CHOOSE i \in 1..26 : UpperCase[i] = c]
    ELSE c

lower(s) == [i \in 1..Len(s) |-> LowerChar(s[i])]

\* s.rfind(c): the last (1-based) position of c in s, 0 when absent.
rfind(s, c) ==
    IF \E i \in 1..Len(s) : s[i] = c
    THEN CHOOSE i \in 1..Len(s) : s[i] = c /\ \A j \in (i + 1)..Len(s) : s[j] # c
    ELSE 0

\* s.split(sep) for a one-character separator.
RECURSIVE split(_, _)
split(s, sep) ==
    IF \A i \in 1..Len(s) : s[i] # sep THEN <<s>>
    ELSE LET i == CHOOSE k \in 1..Len(s) :
                      s[k] = sep /\ \A j \in 1..(k - 1) : s[j] # sep
         IN  <<SubSeq(s, 1, i - 1)>> \o split(SubSeq(s, i + 1, Len(s)), sep)

\* sep.join(parts).
RECURSIVE join(_, _)
join(sep, parts) ==
    IF parts = <<>> THEN <<>>
    ELSE IF Len(parts) = 1 THEN parts[1]
    ELSE parts[1] \o sep \o join(sep, Tail(parts))

\* pathlib: Path(p).name is what follows the last "/".
PathName(p) == SubSeq(p, rfind(p, "/") + 1, Len(p))

\* pathlib (3.11) PurePath.suffix: name[i:] for i = name.rfind("."), when the
\* dot is neither the first nor the last character of the name; else "".
PathSuffix(p) ==
    LET name == PathName(p)
        i == rfind(name, ".")
    IN  IF 1 < i /\ i < Len(name) THEN SubSeq(name, i, Len(name)) ELSE <<>>

\* ------------------------------------------------------------- filesystem

\* The names the modelled files and directories are built from.
S_d == <<"d">>
S_a_json == <<"d", "/", "a", ".", "j", "s", "o", "n">>
S_b_txt == <<"d", "/", "b", ".", "t", "x", "t">>
S_C_JSON == <<"d", "/", "C", ".", "J", "S", "O", "N">>
S_l_json == <<"l", ".", "j", "s", "o", "n">>
S_n == <<"n">>
S_sub == <<"d", "/", "s">>
S_sub_e == <<"d", "/", "s", "/", "e", ".", "j", "s", "o", "n">>
S_q_csv == <<"q", ".", "c", "s", "v">>
S_j_json == <<"j", ".", "j", "s", "o", "n">>
S_e_csv == <<"e", ".", "c", "s", "v">>
S_semi == <<"s", ".", "C", "S", "V">>
S_missing_json == <<"m", ".", "j", "s", "o", "n">>
S_missing_csv == <<"m", ".", "c", "s", "v">>
S_missing == <<"m">>
Ext_csv == <<".", "c", "s", "v">>
Ext_json == <<".", "j", "s", "o", "n">>
Ext_txt == <<".", "t", "x", "t">>

\* The header row and the i-th data row of the modelled delimited files.
CsvHeader == << <<"i", "d">>, <<"n", "m">> >>

CsvRow(i) == << <<"r", LowerCase[i]>>, <<"v", LowerCase[i]>> >>

\* The text of a delimited file with n data rows, cells separated by sep.
CsvText(n, sep) ==
    join(<<"\n">>, <<join(<<sep>>, CsvHeader)>>
                   \o [i \in 1..n |-> join(<<sep>>, CsvRow(i))]) \o <<"\n">>

\* t<n>.csv holds n data rows.
CsvPath(n) == <<"t">> \o Str(n) \o Ext_csv

File(path, text) == [path |-> path, kind |-> "file", text |-> text]

Dir(path) == [path |-> path, kind |-> "dir", text |-> <<>>]

\* What is on disk.  No handler writes the filesystem, so it is fixed.
Entries ==
    { Dir(S_d), Dir(S_sub), Dir(S_q_csv), Dir(S_j_json),
      File(S_a_json, <<"[", "{", "}", ",", "{", "}", "]">>),
      File(S_C_JSON, <<"[", "{", "}", ",">>),
      File(S_l_json, <<"[", "1", "]">>),
      File(S_b_txt, <<"h", "i", "\n", "y", "o">>),
      File(S_n, <<>>),
      File(S_sub_e, <<"{", "}">>),
      File(S_e_csv, <<>>),
      File(S_semi, CsvText(2, ";")) }
    \cup { File(CsvPath(n), CsvText(n, ",")) : n \in 0..MaxRows }

\* Path.exists(), Path.is_file(), Path.is_dir().
exists(p) == \E e \in Entries : e.path = p

Entry(p) == CHOOSE e \in Entries : e.path = p

is_file(p) == exists(p) /\ Entry(p).kind = "file"

is_dir(p) == exists(p) /\ Entry(p).kind = "dir"

\* Path.iterdir(): the direct children of a directory, as full paths.
Children(p) ==
    { e.path : e \in { x \in Entries :
        /\ Len(x.path) > Len(p) + 1
        /\ SubSeq(x.path, 1, Len(p) + 1) = p \o <<"/">>
        /\ rfind(x.path, "/") = Len(p) + 1 } }

\* The paths the handlers are called with: every entry and some missing ones.
PathArgs == { e.path : e \in Entries } \cup {S_missing_json, S_missing_csv, S_missing}

\* ------------------------------------------------------------------- json

\* A parsed JSON value: a number, an object or an array of values.  The
\* modelled files use digits, "{}", "[", "]" and ",": enough for documents
\* that parse, documents that do not, and parsed documents that FileContent
\* accepts or rejects.
JNull == [jtype |-> "null", number |-> 0, items |-> <<>>]

JNum(n) == [jtype |-> "num", number |-> n, items |-> <<>>]

JObj == [jtype |-> "obj", number |-> 0, items |-> <<>>]

JArr(items) == [jtype |-> "arr", number |-> 0, items |-> items]

ParseFail == [ok |-> FALSE, parsed |-> JNull, nextpos |-> 0]

ParseOk(v, i) == [ok |-> TRUE, parsed |-> v, nextpos |-> i]

IsDigit(c) == \E k \in 1..10 : Digits[k] = c

DigitValue(c) == (CHOOSE k \in 1..10 : Digits[k] = c) - 1

\* json.loads, by recursive descent from position i of s.
RECURSIVE ParseValue(_, _), ParseItems(_, _, _)
ParseValue(s, i) ==
    IF i > Len(s) THEN ParseFail
    ELSE IF IsDigit(s[i]) THEN ParseOk(JNum(DigitValue(s[i])), i + 1)
    ELSE IF s[i] = "{"
         THEN IF i + 1 <= Len(s) /\ s[i + 1] = "}" THEN ParseOk(JObj, i + 2)
              ELSE ParseFail
    ELSE IF s[i] = "["
         THEN IF i + 1 <= Len(s) /\ s[i + 1] = "]" THEN ParseOk(JArr(<<>>), i + 2)
              ELSE ParseItems(s, i + 1, <<>>)
    ELSE ParseFail

ParseItems(s, i, acc) ==
    LET r == ParseValue(s, i)
    IN  IF ~r.ok \/ r.nextpos > Len(s) THEN ParseFail
        ELSE IF s[r.nextpos] = "," THEN ParseItems(s, r.nextpos + 1, Append(acc, r.parsed))
        ELSE IF s[r.nextpos] = "]" THEN ParseOk(JArr(Append(acc, r.parsed)), r.nextpos + 1)
        ELSE ParseFail

\* Mutant: a text that does not parse is taken for an empty object.
json_loads_Lenient(s) ==
    LET r == ParseValue(s, 1)
    IN  IF r.ok /\ r.nextpos = Len(s) + 1 THEN r ELSE ParseOk(JObj, Len(s) + 1)

\* json.loads(s): the whole text must be one value.
json_loads(s) ==
    LET r == ParseValue(s, 1)
    IN  IF r.ok /\ r.nextpos = Len(s) + 1 THEN r ELSE ParseFail

Spaces(n) == [i \in 1..n |-> " "]

\* json.dumps(v, indent=2), at nesting depth level.
RECURSIVE Dumps(_, _)
Dumps(v, level) ==
    IF v.jtype = "num" THEN Str(v.number)
    ELSE IF v.jtype = "obj" THEN <<"{", "}">>
    ELSE IF v.items = <<>> THEN <<"[", "]">>
    ELSE <<"[", "\n">>
         \o join(<<",", "\n">>,
                 [k \in 1..Len(v.items) |->
                     Spaces(2 * (level + 1)) \o Dumps(v.items[k], level + 1)])
         \o <<"\n">> \o Spaces(2 * level) \o <<"]">>

json_dumps(v) == Dumps(v, 0)

\* -------------------------------------------------------------------- csv

\* pandas.read_csv(path, delimiter=, nrows=) followed by
\* DataFrame.to_dict('records'): blank lines are skipped, the first line
\* names the columns, each later line (the first nrows of them when nrows is
\* given) is one record, an ordered list of (column, cell) pairs.  The
\* modelled files have distinct column names and as many cells per line as
\* columns, so pandas renames and pads nothing.
CsvLines(text) == SelectSeq(split(text, "\n"), LAMBDA l : l # <<>>)

CsvRecord(columns, line, delimiter) ==
    LET cells == split(line, delimiter)
    IN  [j \in 1..Len(columns) |->
            <<columns[j], IF j <= Len(cells) THEN cells[j] ELSE <<"n", "a", "n">> >>]

Min(a, b) == IF a < b THEN a ELSE b

\* Mutant: nrows is not passed on, every data line is kept.
RowsKept_All(n, nrows) == n

\* How many of n data lines nrows keeps.
RowsKept(n, nrows) ==
    IF nrows = {} THEN n ELSE Min(n, CHOOSE k \in nrows : TRUE)

read_csv(text, delimiter, nrows) ==
    LET lines == CsvLines(text)
        columns == split(lines[1], delimiter)
        data == Tail(lines)
        kept == SubSeq(data, 1, RowsKept(Len(data), nrows))
    IN  IF lines = <<>> THEN [ok |-> FALSE, records |-> <<>>]
        ELSE [ok |-> TRUE,
              records |-> [i \in 1..Len(kept) |->
                              CsvRecord(columns, kept[i], delimiter)]]

\* --------------------------------------------------------------- outcomes

None == "None"

\* An exception message: a fixed text followed by the formatted argument.
Msg(fmt, arg) == [fmt |-> fmt, arg |-> arg]

NoMsg == Msg("", <<>>)

\* class FileContent (filename, content_type, content, size, encoding): the
\* content is text, a parsed JSON value or a list of records, by content_type.
FileContent(filename, content_type, text, value, records, size) ==
    [filename |-> filename, content_type |-> content_type, text |-> text,
     value |-> value, records |-> records, size |-> size, encoding |-> "utf-8"]

NoContent == FileContent(<<>>, "", <<>>, JNull, <<>>, 0)

NoPage == [page_id |-> "", url |-> "", title |-> <<>>, created_time |-> "",
           status |-> ""]

NoFileInfo == [filename |-> <<>>, content_type |-> "", file_size |-> 0]

\* What one invocation of a handler did and how it ended.  status is "ok"
\* (returned) or "raise"; keys are the keys of a returned dict; opened tells
\* whether the file was handed to open() or to the parser; reader names the
\* reader a page-from-file call delegated to; requests are the remote calls
\* issued, in order, and answers what the remote service replied to each;
\* tool and the argument fields say what was invoked.
Blank ==
    [status |-> "none", exc |-> "", msg |-> NoMsg, opened |-> FALSE,
     reader |-> "", fc |-> NoContent, directory |-> <<>>, files |-> <<>>,
     total_count |-> 0, keys |-> {}, page |-> NoPage, file_info |-> NoFileInfo,
     body |-> {}, databases |-> <<>>, requests |-> <<>>, answers |-> <<>>,
     tool |-> "", file_path |-> <<>>, delimiter |-> "", max_rows |-> {},
     file_extensions |-> {}, page_title |-> {}, response |-> <<>>]

Raise(exc, msg, opened) ==
    [Blank EXCEPT !.status = "raise", !.exc = exc, !.msg = msg, !.opened = opened]

ReturnContent(fc) ==
    [Blank EXCEPT !.status = "ok", !.fc = fc, !.opened = TRUE]

\* ---------------------------------------------------------------- readers

read_text_file(file_path) ==
    IF ~exists(file_path)
    THEN Raise("FileNotFoundError", Msg("File not found: ", file_path), FALSE)
    ELSE IF ~is_file(file_path)
    THEN Raise("ValueError", Msg("Path is not a file: ", file_path), FALSE)
    ELSE LET content == Entry(file_path).text
         IN  ReturnContent(FileContent(PathName(file_path), "text", content,
                                       JNull, <<>>, Len(content)))

\* FileContent(content=...) validation: content is Union[str, Dict[str, Any],
\* List[Dict[str, Any]]], so a parsed value that is neither an object nor a
\* list of objects is rejected.
ContentValidates(v) ==
    \/ v.jtype = "obj"
    \/ v.jtype = "arr" /\ \A k \in 1..Len(v.items) : v.items[k].jtype = "obj"

read_json_file(file_path) ==
    IF ~exists(file_path)
    THEN Raise("FileNotFoundError", Msg("File not found: ", file_path), FALSE)
    ELSE IF ~is_file(file_path)
    THEN \* no is_file() check: aiofiles.open is reached and fails
         Raise("IsADirectoryError", Msg("[Errno 21] Is a directory: ", file_path), TRUE)
    ELSE LET content_str == Entry(file_path).text
             loaded == json_loads(content_str)
         IN  IF ~loaded.ok
             THEN Raise("ValueError", Msg("Invalid JSON format: ", <<>>), TRUE)
             ELSE IF ~ContentValidates(loaded.parsed)
             THEN Raise("ValidationError", Msg("validation error for FileContent", <<>>), TRUE)
             ELSE ReturnContent(FileContent(PathName(file_path), "json", <<>>,
                                            loaded.parsed, <<>>, Len(content_str)))

read_csv_file(file_path, delimiter, max_rows) ==
    IF ~exists(file_path)
    THEN Raise("FileNotFoundError", Msg("File not found: ", file_path), FALSE)
    ELSE IF ~is_file(file_path)
    THEN \* no is_file() check: pd.read_csv is reached and fails on open
         Raise("IsADirectoryError", Msg("[Errno 21] Is a directory: ", file_path), TRUE)
    ELSE LET df == read_csv(Entry(file_path).text, delimiter, max_rows)
             file_size == Len(Entry(file_path).text)
         IN  IF ~df.ok
             THEN Raise("EmptyDataError", Msg("No columns to parse from file", <<>>), TRUE)
             ELSE ReturnContent(FileContent(PathName(file_path), "csv", <<>>,
                                            JNull, df.records, file_size))

\* Mutant: the suffix is compared as written, without lower().
KeepsItem_CaseSensitive(item, file_extensions) ==
    /\ is_file(item)
    /\ \/ file_extensions = {}
       \/ \E exts \in file_extensions :
              \E k \in 1..Len(exts) : PathSuffix(item) = exts[k]

\* for item in path.iterdir(): if item.is_file(): if file_extensions is None
\* or item.suffix.lower() in [ext.lower() for ext in file_extensions].
KeepsItem(item, file_extensions) ==
    /\ is_file(item)
    /\ \/ file_extensions = {}
       \/ \E exts \in file_extensions :
              \E k \in 1..Len(exts) : lower(PathSuffix(item)) = lower(exts[k])

\* iterdir is the order in which the directory hands out its children.
list_files_in_directory(directory_path, file_extensions, iterdir) ==
    IF ~exists(directory_path)
    THEN Raise("FileNotFoundError", Msg("Directory not found: ", directory_path), FALSE)
    ELSE IF ~is_dir(directory_path)
    THEN Raise("ValueError", Msg("Path is not a directory: ", directory_path), FALSE)
    ELSE LET files == SelectSeq(iterdir, LAMBDA item : KeepsItem(item, file_extensions))
         IN  [Blank EXCEPT !.status = "ok", !.directory = directory_path,
                           !.files = files, !.total_count = Len(files),
                           !.keys = {"directory", "files", "total_count"}]

\* ----------------------------------------------------------------- notion

Client == "AsyncClient"

\* How the remote service answers one call: it is outside the program, so
\* every answer is possible for every call.
CreateAnswers ==
    { [ok |-> TRUE, id |-> "page-1", url |-> "https://notion.so/page-1",
       created_time |-> "t1", exc |-> "", msg |-> NoMsg],
      [ok |-> FALSE, id |-> "", url |-> "", created_time |-> "",
       exc |-> "APIResponseError", msg |-> Msg("Could not find database", <<>>)],
      [ok |-> FALSE, id |-> "", url |-> "", created_time |-> "",
       exc |-> "RequestTimeoutError", msg |-> Msg("Request timed out", <<>>)] }

TitleProperty(title) == [kind |-> "title", text |-> title]

CustomProperty == [kind |-> "custom", text |-> <<"x">>]

\* dict.update: the keys of b win.
update(a, b) ==
    [k \in DOMAIN a \cup DOMAIN b |-> IF k \in DOMAIN b THEN b[k] ELSE a[k]]

Request(op, database_id, properties, children) ==
    [op |-> op, database_id |-> database_id, properties |-> properties,
     children |-> children]

Unconfigured ==
    Raise("RuntimeError", Msg("Notion API key not configured. Please set NOTION_API_KEY environment variable.", <<>>), FALSE)

\* What the record of an invocation keeps of a remote answer.
Answered(answer) == [ok |-> answer.ok, exc |-> answer.exc, msg |-> answer.msg]

\* Mutant: the failed remote call is tried once more before giving up.
RemoteFailure_Retry(request, answer) ==
    [Raise(answer.exc, answer.msg, FALSE) EXCEPT
        !.requests = <<request, request>>,
        !.answers = <<Answered(answer), Answered(answer)>>]

\* except Exception as e: logger.error(...); raise -- the remote failure
\* leaves the handler as it came, after the one call that was issued.
RemoteFailure(request, answer) ==
    [Raise(answer.exc, answer.msg, FALSE) EXCEPT
        !.requests = <<request>>, !.answers = <<Answered(answer)>>]

\* answer is what the remote service replies if pages.create is called.
create_notion_page(database_id, title, content, properties, answer) ==
    IF notion_client = None THEN Unconfigured
    ELSE LET name == "Name" :> TitleProperty(title)
             page_properties ==
                 IF properties # {} /\ (\E d \in properties : DOMAIN d # {})
                 THEN update(name, CHOOSE d \in properties : TRUE)
                 ELSE name
             children ==
                 IF content # {} /\ (\E c \in content : c # <<>>)
                 THEN <<CHOOSE c \in content : TRUE>>
                 ELSE <<>>
             request == Request("pages.create", database_id, page_properties, children)
         IN  IF answer.ok
             THEN [Blank EXCEPT
                     !.status = "ok",
                     !.requests = <<request>>,
                     !.answers = <<Answered(answer)>>,
                     !.keys = {"page_id", "url", "title", "created_time", "status"},
                     !.page = [page_id |-> answer.id, url |-> answer.url,
                               title |-> title, created_time |-> answer.created_time,
                               status |-> "success"]]
             ELSE RemoteFailure(request, answer)

S_bar == <<" ", "|", " ">>

S_dashes == <<"-", "-", "-">>

S_csv_data == <<"C", "S", "V", " ", "D", "a", "t", "a", " ", "(">>

S_rows == <<" ", "r", "o", "w", "s", ")", ":">>

S_and == <<".", ".", ".", " ", "a", "n", "d", " ">>

S_more_rows == <<" ", "m", "o", "r", "e", " ", "r", "o", "w", "s">>

S_empty_csv == <<"E", "m", "p", "t", "y", " ", "C", "S", "V", " ", "f", "i", "l", "e">>

S_file == <<"F", "i", "l", "e", ":", " ">>

\* list(record.keys()) and record.get(h, "") on an ordered record.
keys(record) == [j \in 1..Len(record) |-> record[j][1]]

get(record, h) ==
    IF \E j \in 1..Len(record) : record[j][1] = h
    THEN record[CHOOSE j \in 1..Len(record) : record[j][1] = h][2]
    ELSE <<>>

\* "".join(lines), each line already ending as the code ends it.
RECURSIVE concat(_)
concat(parts) == IF parts = <<>> THEN <<>> ELSE parts[1] \o concat(Tail(parts))

\* Mutant: >= for >.
MoreRows_AtLeast(n) ==
    IF n >= SampleRows
    THEN <<"\n">> \o S_and \o Str(n - SampleRows) \o S_more_rows
    ELSE <<>>

\* if len(content) > 10: content_text += f"\n... and {len(content) - 10} more rows"
MoreRows(n) ==
    IF n > SampleRows
    THEN <<"\n">> \o S_and \o Str(n - SampleRows) \o S_more_rows
    ELSE <<>>

\* The csv branch of create_notion_page_from_file: the page body.
CsvContentText(records) ==
    IF records # <<>>
    THEN LET headers == keys(records[1])
             sample == SubSeq(records, 1, Min(Len(records), SampleRows))
         IN  S_csv_data \o Str(Len(records)) \o S_rows \o <<"\n", "\n">>
             \o join(S_bar, headers) \o <<"\n">>
             \o join(S_bar, [j \in 1..Len(headers) |-> S_dashes]) \o <<"\n">>
             \o concat([i \in 1..Len(sample) |->
                    join(S_bar, [j \in 1..Len(headers) |-> get(sample[i], headers[j])])
                    \o <<"\n">>])
             \o MoreRows(Len(records))
    ELSE S_empty_csv

\* Mutant: extension = path.suffix, without lower().
ReaderFor_CaseSensitive(file_path) ==
    LET extension == PathSuffix(file_path)
    IN  IF extension = Ext_json THEN "read_json_file"
        ELSE IF extension = Ext_csv THEN "read_csv_file"
        ELSE "read_text_file"

\* The reader create_notion_page_from_file delegates to, by extension.
ReaderFor(file_path) ==
    LET extension == lower(PathSuffix(file_path))
    IN  IF extension = Ext_json THEN "read_json_file"
        ELSE IF extension = Ext_csv THEN "read_csv_file"
        ELSE "read_text_file"

create_notion_page_from_file(database_id, file_path, page_title, answer) ==
    LET reader == ReaderFor(file_path)
        read == IF reader = "read_json_file" THEN read_json_file(file_path)
                ELSE IF reader = "read_csv_file" THEN read_csv_file(file_path, ",", {})
                ELSE read_text_file(file_path)
        file_content == read.fc
        content_text ==
            IF reader = "read_json_file" THEN json_dumps(file_content.value)
            ELSE IF reader = "read_csv_file" THEN CsvContentText(file_content.records)
            ELSE file_content.text
        title == IF page_title # {} /\ (\E t \in page_title : t # <<>>)
                 THEN CHOOSE t \in page_title : TRUE
                 ELSE S_file \o file_content.filename
        page_result == create_notion_page(database_id, title, {content_text}, {}, answer)
    IN  IF read.status = "raise" THEN [read EXCEPT !.reader = reader]
        ELSE IF page_result.status = "raise"
        THEN [page_result EXCEPT !.reader = reader, !.opened = TRUE,
                                 !.body = {content_text}]
        ELSE [page_result EXCEPT
                !.reader = reader, !.opened = TRUE, !.body = {content_text},
                !.fc = file_content,
                !.keys = @ \cup {"file_info"},
                !.file_info = [filename |-> file_content.filename,
                               content_type |-> file_content.content_type,
                               file_size |-> file_content.size]]

\* Largest number of collections in one modelled search response.
MaxResults == 2

S_untitled == <<"U", "n", "t", "i", "t", "l", "e", "d">>

Segment(plain_text) == [plain_text |-> plain_text]

Database(id, title) ==
    [id |-> id, url |-> "u-" \o id, title |-> title, created_time |-> "c-" \o id,
     last_edited_time |-> "e-" \o id]

\* The collections a search may return: the "title" key absent ({}), an
\* empty segment list, a first segment without text, with empty text, with
\* text, and two segments.
Databases ==
    { Database("d0", {}),
      Database("d1", {<<>>}),
      Database("d2", {<<Segment({})>>}),
      Database("d3", {<<Segment({<<>>})>>}),
      Database("d4", {<<Segment({<<"A">>})>>}),
      Database("d5", {<<Segment({<<"B">>}), Segment({<<"C">>})>>}) }

SearchAnswers ==
    { [ok |-> TRUE, results |-> r, exc |-> "", msg |-> NoMsg] :
        r \in UNION { [1..n -> Databases] : n \in 0..MaxResults } }
    \cup { [ok |-> FALSE, results |-> <<>>, exc |-> "APIResponseError",
            msg |-> Msg("API token is invalid", <<>>)] }

\* title = "Untitled"; if db.get("title") and len(db["title"]) > 0:
\*     title = db["title"][0].get("plain_text", "Untitled")
DatabaseTitle(db) ==
    IF db.title # {} /\ (\E t \in db.title : Len(t) > 0)
    THEN LET first == (CHOOSE t \in db.title : TRUE)[1]
         IN  IF first.plain_text = {} THEN S_untitled
             ELSE CHOOSE x \in first.plain_text : TRUE
    ELSE S_untitled

get_notion_databases(answer) ==
    IF notion_client = None THEN Unconfigured
    ELSE LET request == Request("search", "", <<>>, <<>>)
         IN  IF ~answer.ok
             THEN RemoteFailure(request, answer)
             ELSE [Blank EXCEPT
                     !.status = "ok",
                     !.requests = <<request>>,
                     !.answers = <<Answered(answer)>>,
                     !.response = answer.results,
                     !.databases =
                         [i \in 1..Len(answer.results) |->
                             [id |-> answer.results[i].id,
                              url |-> answer.results[i].url,
                              title |-> DatabaseTitle(answer.results[i]),
                              created_time |-> answer.results[i].created_time,
                              last_edited_time |-> answer.results[i].last_edited_time]]]

\* ---------------------------------------------------------------- actions

\* The argument values the tools are invoked with.
Delimiters == {",", ";"}

MaxRowsArgs == {{}} \cup { {k} : k \in 0..MaxK }

ExtensionArgs ==
    { {}, {<<>>}, {<<Ext_json>>}, {<<Ext_txt, lower(Ext_csv)>>},
      {<<<<"J", "s", "o", "n">>, <<".", "J", "S", "O", "N">>>>} }

DirectoryArgs == {S_d, S_sub, S_b_txt, S_missing}

DatabaseIds == {"db-1", "db-2"}

Titles == {<<"T">>, <<>>}

PageTitleArgs == {{}, {<<>>}, {<<"T">>}}

ContentArgs == {{}, {<<>>}, {<<"h", "i">>}}

PropertiesArgs ==
    { {}, {<<>>}, {"Tag" :> CustomProperty}, {"Name" :> CustomProperty} }

\* Every order in which a directory may hand out the members of S.
Orders(S) ==
    { f \in [1..Cardinality(S) -> S] :
        \A i, j \in 1..Cardinality(S) : i # j => f[i] # f[j] }

\* Mutant: a handler that drops the client when a call fails.
ClientAfter_Dropped(outcome) ==
    IF outcome.status = "raise" THEN None ELSE notion_client

\* The client handle after a handler has run: the handlers read the global
\* notion_client and none assigns it, however the invocation ends.
ClientAfter(outcome) == notion_client

Invoke_read_text_file ==
    \E file_path \in PathArgs :
        LET outcome ==
                [read_text_file(file_path)
                 EXCEPT !.tool = "read_text_file", !.file_path = file_path]
        IN  /\ last' = outcome
            /\ notion_client' = ClientAfter(outcome)
            /\ UNCHANGED reply

Invoke_read_json_file ==
    \E file_path \in PathArgs :
        LET outcome ==
                [read_json_file(file_path)
                 EXCEPT !.tool = "read_json_file", !.file_path = file_path]
        IN  /\ last' = outcome
            /\ notion_client' = ClientAfter(outcome)
            /\ UNCHANGED reply

Invoke_read_csv_file ==
    \E file_path \in PathArgs, delimiter \in Delimiters, max_rows \in MaxRowsArgs :
        LET outcome ==
                [read_csv_file(file_path, delimiter, max_rows)
                 EXCEPT !.tool = "read_csv_file", !.file_path = file_path,
                        !.delimiter = delimiter, !.max_rows = max_rows]
        IN  /\ last' = outcome
            /\ notion_client' = ClientAfter(outcome)
            /\ UNCHANGED reply

Invoke_list_files_in_directory ==
    \E directory_path \in DirectoryArgs, file_extensions \in ExtensionArgs :
        \E iterdir \in Orders(Children(directory_path)) :
            LET outcome ==
                    [list_files_in_directory(directory_path, file_extensions, iterdir)
                     EXCEPT !.tool = "list_files_in_directory",
                            !.file_path = directory_path,
                            !.file_extensions = file_extensions]
            IN  /\ last' = outcome
                /\ notion_client' = ClientAfter(outcome)
                /\ UNCHANGED reply

Invoke_create_notion_page ==
    \E database_id \in DatabaseIds, title \in Titles, content \in ContentArgs,
          properties \in PropertiesArgs, answer \in CreateAnswers :
        LET outcome ==
                [create_notion_page(database_id, title, content, properties, answer)
                 EXCEPT !.tool = "create_notion_page"]
        IN  /\ last' = outcome
            /\ notion_client' = ClientAfter(outcome)
            /\ UNCHANGED reply

Invoke_create_notion_page_from_file ==
    \E database_id \in DatabaseIds, file_path \in PathArgs,
          page_title \in PageTitleArgs, answer \in CreateAnswers :
        LET outcome ==
                [create_notion_page_from_file(database_id, file_path, page_title, answer)
                 EXCEPT !.tool = "create_notion_page_from_file",
                        !.file_path = file_path, !.page_title = page_title]
        IN  /\ last' = outcome
            /\ notion_client' = ClientAfter(outcome)
            /\ UNCHANGED reply

Invoke_get_notion_databases ==
    \E answer \in SearchAnswers :
        LET outcome ==
                [get_notion_databases(answer)
                 EXCEPT !.tool = "get_notion_databases"]
        IN  /\ last' = outcome
            /\ notion_client' = ClientAfter(outcome)
            /\ UNCHANGED reply

\* ------------------------------------------------- examples/test_demo.py

\* An argument value: a str (its characters in s) or an int.
StrValue(s) == [type |-> "str", chars |-> s, lit |-> ""]

IntValue == [type |-> "int", chars |-> <<>>, lit |-> "5"]

Literal(lit) == [type |-> "str", chars |-> <<>>, lit |-> lit]

\* MockMCPClient.__init__: self.tools, by name, with each mock handler's
\* required and optional parameters.
tools ==
    [read_text_file |-> [required |-> {"file_path"}, optional |-> {}],
     read_json_file |-> [required |-> {"file_path"}, optional |-> {}],
     read_csv_file |-> [required |-> {"file_path"},
                        optional |-> {"delimiter", "max_rows"}],
     list_files_in_directory |-> [required |-> {"directory_path"},
                                  optional |-> {"file_extensions"}],
     create_notion_page |-> [required |-> {"database_id", "title"},
                             optional |-> {"content", "properties"}],
     create_notion_page_from_file |-> [required |-> {"database_id", "file_path"},
                                       optional |-> {"page_title"}],
     get_notion_databases |-> [required |-> {}, optional |-> {}]]

HandlerReturn(payload, is_list) ==
    [status |-> "ok", exc |-> "", message |-> "", payload |-> payload,
     is_list |-> is_list]

HandlerRaise(exc, message) ==
    [status |-> "raise", exc |-> exc, message |-> message, payload |-> <<>>,
     is_list |-> FALSE]

\* Path(file_path).name in a mock handler: TypeError unless file_path is a str.
MockRead(args, content_type) ==
    IF args["file_path"].type # "str"
    THEN HandlerRaise("TypeError", "expected str, bytes or os.PathLike object")
    ELSE HandlerReturn(("filename" :> StrValue(PathName(args["file_path"].chars)))
                       @@ ("content_type" :> Literal(content_type))
                       @@ ("status" :> Literal("mock_success")), FALSE)

\* await self.tools[tool_name](**args): binding the keywords to the handler's
\* parameters, then the mock handler's body.
MockHandler(tool_name, args) ==
    IF ~(tools[tool_name].required \subseteq DOMAIN args)
    THEN HandlerRaise("TypeError", "missing required positional argument")
    ELSE IF ~(DOMAIN args \subseteq tools[tool_name].required \cup tools[tool_name].optional)
    THEN HandlerRaise("TypeError", "got an unexpected keyword argument")
    ELSE IF tool_name = "read_text_file" THEN MockRead(args, "text")
    ELSE IF tool_name = "read_json_file" THEN MockRead(args, "json")
    ELSE IF tool_name = "read_csv_file" THEN MockRead(args, "csv")
    ELSE IF tool_name = "list_files_in_directory"
    THEN HandlerReturn(("status" :> Literal("mock_success"))
                       @@ ("directory" :> args["directory_path"])
                       @@ ("files" :> Literal("mock_file1.txt, mock_file2.json")),
                       FALSE)
    ELSE IF tool_name = "create_notion_page"
    THEN HandlerReturn(("page_id" :> Literal("mock_page_id"))
                       @@ ("title" :> args["title"])
                       @@ ("status" :> Literal("mock_success")), FALSE)
    ELSE IF tool_name = "create_notion_page_from_file"
    THEN HandlerReturn(("page_id" :> Literal("mock_page_id"))
                       @@ ("status" :> Literal("mock_success"))
                       @@ ("file_path" :> args["file_path"]), FALSE)
    ELSE HandlerReturn(("id" :> Literal("mock_db_id"))
                       @@ ("title" :> Literal("Mock Database"))
                       @@ ("status" :> Literal("mock_success")), TRUE)

\* The exception classes "except Exception" does not catch.
BaseExceptionOnly == {"KeyboardInterrupt", "SystemExit", "CancelledError"}

\* Mutant: except ValueError as e.
Catches_ValueError(exc) == exc = "ValueError"

\* except Exception as e:
Catches(exc) == exc \notin BaseExceptionOnly

\* What call_tool hands back: kind "result" (the handler's return value),
\* "error" (the dict {"error": message}) or "escaped" (an exception left
\* call_tool); handler_ran tells whether a handler was invoked.
Reply(kind, tool_name, args, handler_ran, error, payload, is_list, exc) ==
    [kind |-> kind, tool_name |-> tool_name, args |-> args,
     handler_ran |-> handler_ran, error |-> error, exc |-> exc,
     payload |-> payload, is_list |-> is_list]

NoReply == Reply("none", "", <<>>, FALSE, "", <<>>, FALSE, "")

\* if tool_name in self.tools:
Registered(tool_name) == tool_name \in DOMAIN tools

\* Mutant: the lookup self.tools[tool_name] without the membership test, so
\* the KeyError leaves call_tool.
ToolNotFound_KeyError(tool_name, args) ==
    Reply("escaped", tool_name, args, FALSE, "", <<>>, FALSE, "KeyError")

\* else: return {"error": f"Tool not found: {tool_name}"}
ToolNotFound(tool_name, args) ==
    Reply("error", tool_name, args, FALSE, "Tool not found: " \o tool_name,
          <<>>, FALSE, "")

call_tool(tool_name, args) ==
    IF Registered(tool_name)
    THEN LET result == MockHandler(tool_name, args)
         IN  IF result.status = "ok"
             THEN Reply("result", tool_name, args, TRUE, "", result.payload,
                        result.is_list, "")
             ELSE IF Catches(result.exc)
             THEN Reply("error", tool_name, args, TRUE, result.message, <<>>,
                        FALSE, result.exc)
             ELSE Reply("escaped", tool_name, args, TRUE, "", <<>>, FALSE, result.exc)
    ELSE ToolNotFound(tool_name, args)

\* The names and argument mappings call_tool is tried with: every registered
\* name and two that are not; every mapping of a subset of the handler's
\* parameters and one foreign keyword to a str or an int.
ToolNames == DOMAIN tools \cup {"delete_notion_page", ""}

ArgValues == {StrValue(S_a_json), IntValue}

ArgNames(tool_name) ==
    IF Registered(tool_name)
    THEN tools[tool_name].required \cup tools[tool_name].optional \cup {"verbose"}
    ELSE {"file_path"}

ArgMappings(tool_name) ==
    UNION { [names -> ArgValues] : names \in SUBSET ArgNames(tool_name) }

Invoke_call_tool ==
    \E tool_name \in ToolNames :
        \E args \in ArgMappings(tool_name) :
            /\ reply' = call_tool(tool_name, args)
            /\ UNCHANGED <<notion_client, last>>

\* notion_token = os.getenv("NOTION_API_KEY"): the client exists exactly when
\* the token does.
Init ==
    /\ notion_client \in {None, Client}
    /\ last = Blank
    /\ reply = NoReply

Next ==
    \/ Invoke_read_text_file
    \/ Invoke_read_json_file
    \/ Invoke_read_csv_file
    \/ Invoke_list_files_in_directory
    \/ Invoke_create_notion_page
    \/ Invoke_create_notion_page_from_file
    \/ Invoke_get_notion_databases

Spec == Init /\ [][Next]_vars

\* The demonstration client runs on its own, against its mock handlers.
ClientNext == Invoke_call_tool

ClientSpec == Init /\ [][ClientNext]_vars

\* ----------------------------------------------------------------- claims

\* The error kind of an invocation's outcome: FileNotFoundError is NotFound,
\* the ValueError of a failed type check InvalidInput, a parser's rejection
\* InvalidFormat, the RuntimeError of the missing client Unconfigured, a
\* remote exception RemoteServiceError; an operating-system error from
\* open() is none of them.
ErrorKind(o) ==
    IF o.status # "raise" THEN "none"
    ELSE IF o.exc = "FileNotFoundError" THEN "NotFound"
    ELSE IF o.exc = "ValueError" /\ o.msg.fmt \in {"Path is not a file: ",
                                                  "Path is not a directory: "}
    THEN "InvalidInput"
    ELSE IF o.exc \in {"ValueError", "EmptyDataError", "ValidationError"}
    THEN "InvalidFormat"
    ELSE IF o.exc = "RuntimeError" THEN "Unconfigured"
    ELSE IF o.exc \in {"APIResponseError", "RequestTimeoutError"}
    THEN "RemoteServiceError"
    ELSE "OSError"

RemoteTools == {"create_notion_page", "create_notion_page_from_file",
                "get_notion_databases"}

\* C1: with no token configured (notion_client is None), every invocation of
\* create_notion_page, create_notion_page_from_file or get_notion_databases,
\* whatever its arguments, ends in the Unconfigured error and issues no
\* remote call.
C1_UnconfiguredAlways ==
    (notion_client = None /\ last.tool \in RemoteTools)
        => (ErrorKind(last) = "Unconfigured" /\ last.requests = <<>>)

\* The seven tools of the tool surface.
SevenTools == {"read_text_file", "read_json_file", "read_csv_file",
               "list_files_in_directory", "create_notion_page",
               "create_notion_page_from_file", "get_notion_databases"}

\* C2: dispatching a name that is not one of the seven registered tools
\* returns the error envelope {error: "Tool not found: <name>"}; no handler
\* is invoked and no exception leaves the dispatcher.
C2_UnknownToolNotFound ==
    (reply.kind # "none" /\ reply.tool_name \notin SevenTools)
        => /\ reply.kind = "error"
           /\ reply.error = "Tool not found: " \o reply.tool_name
           /\ ~reply.handler_ran

C2_Witness ==
    /\ reply.tool_name = "delete_notion_page"
    /\ reply.kind = "error"
    /\ DOMAIN reply.args = {"file_path"}

\* C3: for every registered tool and every argument mapping the dispatcher
\* does not raise: when the handler returns, the reply is its return value;
\* when the handler fails, the reply is the envelope {error: message}; so
\* the reply is exactly one of the two.
C3_NeverRaises ==
    (reply.kind # "none" /\ reply.tool_name \in SevenTools)
        => LET result == MockHandler(reply.tool_name, reply.args)
           IN  /\ reply.kind \in {"result", "error"}
               /\ reply.handler_ran
               /\ result.status = "ok" =>
                      /\ reply.kind = "result"
                      /\ reply.payload = result.payload
                      /\ reply.is_list = result.is_list
               /\ result.status = "raise" =>
                      /\ reply.kind = "error"
                      /\ reply.error = result.message

\* A mistyped argument: read_json_file(file_path=5) fails in the handler and
\* comes back as the error envelope.
C3_Witness ==
    /\ reply.tool_name = "read_json_file"
    /\ DOMAIN reply.args = {"file_path"}
    /\ reply.args["file_path"].type = "int"
    /\ reply.kind = "error"
    /\ reply.exc = "TypeError"

\* C4: read_json_file and read_csv_file make the checks of read_text_file: a
\* missing path fails with NotFound, an existing path that is not a regular
\* file fails with InvalidInput, both before the content is opened or parsed.
C4_SameChecks ==
    (last.tool \in {"read_json_file", "read_csv_file"})
        => /\ ~exists(last.file_path) =>
                  (ErrorKind(last) = "NotFound" /\ ~last.opened)
           /\ (exists(last.file_path) /\ ~is_file(last.file_path)) =>
                  (ErrorKind(last) = "InvalidInput" /\ ~last.opened)

\* The i-th record of t<n>.csv as the file states it.
FileRecord(i) == [j \in 1..Len(CsvHeader) |-> <<CsvHeader[j], CsvRow(i)[j]>>]

\* C5: for a delimited file with a header row and N data rows, read_csv_file
\* with max_rows = k returns min(k, N) records, and N without max_rows; they
\* are the first records of the file, in file order, and the keys of each
\* are the header row.
C5_RowsReturned ==
    \A n \in 0..MaxRows :
        (last.tool = "read_csv_file"
         /\ \/ last.file_path = CsvPath(n) /\ last.delimiter = ","
            \/ last.file_path = S_semi /\ last.delimiter = ";" /\ n = 2)
            => LET want == IF last.max_rows = {} THEN n
                           ELSE IF \E k \in last.max_rows : k < n
                                THEN CHOOSE k \in last.max_rows : TRUE
                                ELSE n
                   got == last.fc.records
               IN  /\ last.status = "ok"
                   /\ Len(got) = want
                   /\ \A i \in 1..Len(got) :
                          /\ got[i] = FileRecord(i)
                          /\ {got[i][j][1] : j \in 1..Len(got[i])}
                                 = {CsvHeader[j] : j \in 1..Len(CsvHeader)}

C5_Witness ==
    /\ last.tool = "read_csv_file"
    /\ last.file_path = CsvPath(3)
    /\ last.delimiter = ","
    /\ last.max_rows = {2}
    /\ Len(last.fc.records) = 2

\* A data row as the page body shows it: its cells joined by " | ".
BodyRow(i) == CsvRow(i)[1] \o <<" ", "|", " ">> \o CsvRow(i)[2]

\* C6: for a delimited file with N data rows the body sent by
\* create_notion_page_from_file holds, after a header line and a line of
\* dashes, exactly the first min(N, 10) data rows in file order, cells
\* joined by " | "; a last line "... and N-10 more rows" is there exactly
\* when N > 10; for N = 0 the body is the marker "Empty CSV file" alone.
C6_CsvBody ==
    \A n \in 0..MaxRows :
        (last.tool = "create_notion_page_from_file" /\ last.file_path = CsvPath(n)
         /\ last.requests # <<>>)
            => LET sent == last.requests[1].children
                   lines == split(sent[1], "\n")
                   shown == IF n < 10 THEN n ELSE 10
               IN  /\ Len(sent) = 1
                   /\ n = 0 => sent[1] = S_empty_csv
                   /\ n > 0 =>
                        /\ Len(lines) = 4 + shown + (IF n > 10 THEN 2 ELSE 1)
                        /\ lines[1] = S_csv_data \o Str(n) \o S_rows
                        /\ lines[2] = <<>>
                        /\ lines[3] = CsvHeader[1] \o <<" ", "|", " ">> \o CsvHeader[2]
                        /\ lines[4] = <<"-", "-", "-", " ", "|", " ", "-", "-", "-">>
                        /\ \A i \in 1..shown : lines[4 + i] = BodyRow(i)
                        /\ lines[4 + shown + 1] = <<>>
                        /\ n > 10 =>
                             lines[Len(lines)] = S_and \o Str(n - 10) \o S_more_rows

C6_Witness ==
    /\ last.tool = "create_notion_page_from_file"
    /\ last.file_path = CsvPath(12)
    /\ last.status = "ok"
    /\ Len(last.requests) = 1
    /\ Len(split(last.requests[1].children[1], "\n")) = 16

\* p is directly inside directory dir.
DirectChild(p, dir) ==
    /\ Len(p) > Len(dir) + 1
    /\ SubSeq(p, 1, Len(dir) + 1) = dir \o <<"/">>
    /\ \A i \in (Len(dir) + 2)..Len(p) : p[i] # "/"

\* C7: list_files_in_directory returns the regular files directly inside the
\* directory, neither directories nor what they hold; given file_extensions,
\* a file is kept exactly when its suffix equals one of them, compared
\* without regard to case; total_count is the number of files returned.
C7_Listing ==
    (last.tool = "list_files_in_directory" /\ last.status = "ok")
        => LET dir == last.file_path
               listed == {last.files[i] : i \in 1..Len(last.files)}
           IN  /\ last.total_count = Len(last.files)
               /\ Cardinality(listed) = Len(last.files)
               /\ listed =
                    { e.path : e \in { x \in Entries :
                        /\ x.kind = "file"
                        /\ DirectChild(x.path, dir)
                        /\ \/ last.file_extensions = {}
                           \/ \E exts \in last.file_extensions :
                                \E k \in 1..Len(exts) :
                                    lower(PathSuffix(x.path)) = lower(exts[k]) } }
               /\ (dir = S_d /\ last.file_extensions = {<<Ext_json>>})
                      => listed = {S_a_json, S_C_JSON}
               /\ (dir = S_d /\ last.file_extensions = {})
                      => listed = {S_a_json, S_b_txt, S_C_JSON}

C7_Witness ==
    /\ last.tool = "list_files_in_directory"
    /\ last.file_path = S_d
    /\ last.file_extensions = {<<Ext_json>>}
    /\ last.total_count = 2

\* C8: no retry and no partial result: an invocation of a remote tool issues
\* at most one remote call, and when that call fails the invocation raises
\* the remote error with its message and returns nothing (no page_id, no
\* file_info, no list).
C8_NoRetryNoPartial ==
    (last.tool \in RemoteTools)
        => /\ Len(last.requests) <= 1
           /\ Len(last.answers) = Len(last.requests)
           /\ \A i \in 1..Len(last.answers) :
                  ~last.answers[i].ok =>
                      /\ last.status = "raise"
                      /\ last.exc = last.answers[i].exc
                      /\ last.msg = last.answers[i].msg
                      /\ last.keys = {}
                      /\ last.page = NoPage
                      /\ last.file_info = NoFileInfo
                      /\ last.databases = <<>>

C8_Witness ==
    /\ last.tool = "create_notion_page_from_file"
    /\ Len(last.requests) = 1
    /\ ~last.answers[1].ok
    /\ last.status = "raise"
    /\ last.msg.fmt = "Could not find database"

\* C9: over any sequence of tool calls the remote client handle stays what
\* start-up made it: the client if there was a token, None if there was not.
C9_ClientNeverChanges == [][notion_client' = notion_client]_vars

\* A remote call has failed and the client is still in place.
C9_Witness ==
    /\ notion_client = Client
    /\ last.status = "raise"
    /\ Len(last.requests) = 1

ReaderOf(extension) ==
    IF extension = Ext_json THEN "read_json_file"
    ELSE IF extension = Ext_csv THEN "read_csv_file"
    ELSE "read_text_file"

ContentTypeOf(reader) ==
    IF reader = "read_json_file" THEN "json"
    ELSE IF reader = "read_csv_file" THEN "csv"
    ELSE "text"

\* What C10 says of an invocation whose file has the given extension.
ReaderAndFileInfo(extension) ==
    (last.tool = "create_notion_page_from_file")
        => /\ last.reader = ReaderOf(extension)
           /\ "file_info" \in last.keys =>
                /\ last.status = "ok"
                /\ last.file_info.content_type = ContentTypeOf(ReaderOf(extension))
                /\ last.file_info.content_type = last.fc.content_type
                /\ last.file_info.filename = last.fc.filename
                /\ last.file_info.filename = PathName(last.file_path)
                /\ last.file_info.file_size = last.fc.size
                /\ last.file_info.file_size = Len(Entry(last.file_path).text)
           /\ last.status = "ok" => "file_info" \in last.keys

\* C10 as stated: the reader is chosen by the file extension, .json the JSON
\* reader, .csv the delimited reader, anything else the text reader, and on
\* success file_info names that reader's content type, filename and size.
C10_ReaderByExtension == ReaderAndFileInfo(PathSuffix(last.file_path))

\* C10 as amended: the same, with the extension compared in lower case, so
\* that .JSON is read as JSON and .CSV as a delimited file.
C10_ReaderByLowerExtension ==
    /\ ReaderAndFileInfo(lower(PathSuffix(last.file_path)))
    /\ (last.tool = "create_notion_page_from_file" /\ last.file_path = S_C_JSON)
           => last.reader = "read_json_file"
    /\ (last.tool = "create_notion_page_from_file" /\ last.file_path = S_semi)
           => last.reader = "read_csv_file"
    /\ (last.tool = "create_notion_page_from_file"
        /\ last.file_path \in {S_b_txt, S_n, S_d})
           => last.reader = "read_text_file"

C10_Witness ==
    /\ last.tool = "create_notion_page_from_file"
    /\ last.file_path = S_semi
    /\ "file_info" \in last.keys
    /\ last.file_info.content_type = "csv"
    /\ last.file_info.file_size = Len(CsvText(2, ";"))

\* The title C11 expects for a collection of the remote response.
ExpectedTitle(db) ==
    IF db.title = {} THEN S_untitled
    ELSE LET segments == CHOOSE t \in db.title : TRUE
         IN  IF segments = <<>> THEN S_untitled
             ELSE IF segments[1].plain_text = {} THEN S_untitled
             ELSE IF segments[1].plain_text = {<<>>} THEN S_untitled
             ELSE CHOOSE x \in segments[1].plain_text : TRUE

\* C11: get_notion_databases reports, for every collection of the remote
\* response and in the order of the response, a title that is not empty:
\* the text of the first title segment, and "Untitled" when the segment list
\* is absent or empty or the first segment's text is absent or empty.
C11_TitlesNonEmpty ==
    (last.tool = "get_notion_databases" /\ last.status = "ok")
        => /\ Len(last.databases) = Len(last.response)
           /\ \A i \in 1..Len(last.databases) :
                  /\ last.databases[i].id = last.response[i].id
                  /\ last.databases[i].title # <<>>
                  /\ last.databases[i].title = ExpectedTitle(last.response[i])

\* The modelled paths whose file cannot be read: missing, not a regular
\* file, JSON that does not parse (d/C.JSON), JSON that FileContent rejects
\* (l.json), a delimited file without a header line (e.csv).
Unreadable(p) ==
    \/ ~(\E e \in Entries : e.path = p /\ e.kind = "file")
    \/ p \in {S_C_JSON, S_l_json, S_e_csv}

\* C12: in create_notion_page_from_file the file is read before any remote
\* call: when the read fails the invocation ends in the read's error and no
\* remote call is issued; a remote call is issued only for a file that was
\* read.
C12_ReadBeforeRemote ==
    (last.tool = "create_notion_page_from_file")
        => /\ Unreadable(last.file_path) =>
                  /\ last.status = "raise"
                  /\ last.requests = <<>>
                  /\ last.keys = {}
                  /\ ErrorKind(last) \in {"NotFound", "InvalidInput",
                                          "InvalidFormat", "OSError"}
           /\ last.requests # <<>> =>
                  /\ ~Unreadable(last.file_path)
                  /\ last.opened
                  /\ last.body # {}

\* The client is configured, the JSON file does not parse, nothing is sent.
C12_Witness ==
    /\ notion_client = Client
    /\ last.tool = "create_notion_page_from_file"
    /\ last.file_path = S_C_JSON
    /\ last.status = "raise"
    /\ last.msg.fmt = "Invalid JSON format: "
    /\ last.requests = <<>>

====
